---- MODULE Spec2Model ----
(***************************************************************************)
(* Draft persistence and versioning core of ai-blog-assistant:             *)
(*   backend/app/services/content_service.py   (ContentService)            *)
(*   backend/app/services/autosave_service.py  (AutoSaveService)           *)
(*   backend/app/models/content.py             (BlogPost, PostVersion)     *)
(*                                                                         *)
(* The relational store (tables blog_posts and post_versions) is shared    *)
(* by the processes of Procs.  Server is the process that holds the        *)
(* class-level autosave cache and runs the asyncio event loop: its         *)
(* handlers and tasks contain no real suspension point, so they never      *)
(* interleave with each other; they do interleave with the transactions    *)
(* of the other process at the commits of ContentService (the row update   *)
(* is committed before _create_version reads the highest version number,   *)
(* and that read is a statement of its own before the insert).             *)
(*                                                                         *)
(* Texts (titles, bodies, slugs) are sequences of one-character strings.   *)
(* An optional value (a nullable column, an absent dict key, an unset      *)
(* field of a patch) is << >> when absent and <<v>> when present.          *)
(* Timestamps are seconds on one clock, now.                               *)
(***************************************************************************)
EXTENDS Integers, Sequences, FiniteSets, TLC

VARIABLES
    now,              \* the clock read by datetime.utcnow() and func.now()
    blog_posts,       \* table blog_posts: post id -> row
    post_versions,    \* table post_versions: post id -> rows in insertion order
    pc,               \* per process: where it stands inside a ContentService call
    autosave_cache,   \* AutoSaveService._autosave_cache: key -> entry
    save_intervals,   \* AutoSaveService._save_intervals: key -> time of last trigger
    tasks             \* _perform_autosave tasks handed to the event loop, not yet run

vars == <<now, blog_posts, post_versions, pc, autosave_cache, save_intervals, tasks>>

----------------------------------------------------------------------------
(* Bounds of the model *)

MaxTime == 35
MaxVersions == 3
MaxTasks == 1
MaxRows == 55
MaxTwin == 6

(* Program constants *)

SaveInterval == 30
MaxVersionsPerPost == 50
ConflictResolutionTimeout == 300
SecondsPerDay == 86400
SecondsPerHour == 3600
WordsPerMinute == 200
SlugMaxLen == 100

----------------------------------------------------------------------------
(* Inputs *)

Procs == {"p1", "p2"}
Server == "p1"
Users == {"u1", "u2"}
Posts == {"d1"}
Owner == "u1"
Other == "u2"
Missing == "d0"
TickSteps == {5, 30}

T1 == <<"H", "i">>
T2 == <<"y", "o", "!">>
B1 == <<"a">>
B2 == <<"a", " ", "b">>
M1 == <<"m">>
Titles == {T1, T2}
Bodies == {B1, B2}

None == << >>
Some(v) == <<v>>
IsSet(o) == Len(o) > 0
Val(o) == o[1]

Key(user_id, post_id) == <<user_id, post_id>>
Keys == {Key(u, d) : u \in Users, d \in Posts}

Put(f, k, v) == [x \in DOMAIN f \cup {k} |-> IF x = k THEN v ELSE f[x]]
Remove(f, k) == [x \in DOMAIN f \ {k} |-> f[x]]

Truthy(text) == Len(text) > 0

Max(a, b) == IF a >= b THEN a ELSE b
Min(a, b) == IF a <= b THEN a ELSE b

----------------------------------------------------------------------------
(* BlogPost.update_word_count, BlogPost.calculate_reading_time *)

Whitespace == {" ", "\n", "\t"}

\* the positions where a word of text starts: a character that is not
\* whitespace, at the start or after whitespace
WordStarts(text) ==
    {i \in 1..Len(text) : /\ text[i] \notin Whitespace
                          /\ (i = 1 \/ text[i - 1] \in Whitespace)}

\* len(self.content.split())
WordCountOf(content) == Cardinality(WordStarts(content))

\* Python 3 round(a / b) for a >= 0, b > 0: ties go to the even neighbour
PyRound(a, b) ==
    LET q == a \div b
        r == a % b
    IN  IF 2 * r < b THEN q
        ELSE IF 2 * r > b THEN q + 1
        ELSE IF q % 2 = 0 THEN q ELSE q + 1

update_word_count(post) ==
    IF Truthy(post.content)
    THEN [post EXCEPT !.word_count = WordCountOf(post.content)]
    ELSE post

calculate_reading_time(post) ==
    IF post.word_count # 0
    THEN [post EXCEPT !.reading_time = Max(1, PyRound(post.word_count, WordsPerMinute))]
    ELSE post

----------------------------------------------------------------------------
(* ContentService._calculate_seo_score *)

SeoPoints(titleLen, meta, wordCount, keywords, slug) ==
    LET title_pts == IF 5 <= titleLen /\ titleLen <= 60 THEN 20
                     ELSE IF titleLen <= 70 THEN 15 ELSE 0
        meta_pts  == IF IsSet(meta) /\ Truthy(Val(meta))
                     THEN (IF 120 <= Len(Val(meta)) /\ Len(Val(meta)) <= 160 THEN 20
                           ELSE IF Len(Val(meta)) <= 180 THEN 15 ELSE 0)
                     ELSE 0
        word_pts  == IF wordCount >= 300 THEN 20
                     ELSE IF wordCount >= 200 THEN 15 ELSE 0
        kw_pts    == IF IsSet(keywords) /\ Len(Val(keywords)) > 0 THEN 20 ELSE 0
        slug_pts  == IF IsSet(slug) /\ Len(Val(slug)) > 0 THEN 20 ELSE 0
    IN  Min(title_pts + meta_pts + word_pts + kw_pts + slug_pts, 100)

\* a score whose title test leaves out the upper end of the range: the property
\* C23 has to reject it
seo_score_title_below_60(post) ==
    SeoPoints(IF Len(post.title) = 60 THEN 61 ELSE Len(post.title),
              post.meta_description, post.word_count, post.keywords, post.slug)

calculate_seo_score(post) ==
    SeoPoints(Len(post.title), post.meta_description, post.word_count,
              post.keywords, post.slug)

----------------------------------------------------------------------------
(* ContentService._generate_slug, ContentService._ensure_unique_slug *)

LowerOf == [c \in {"H", "A", "B"} |-> CASE c = "H" -> "h" [] c = "A" -> "a" [] c = "B" -> "b"]
Lower(c) == IF c \in DOMAIN LowerOf THEN LowerOf[c] ELSE c
SlugLetters == {"a", "b", "h", "i", "o", "y", "0", "1", "2", "3"}

IsSlugChar(c) == c \in SlugLetters \cup Whitespace \cup {"-"}

KeepSlugChars(text) == SelectSeq(text, IsSlugChar)

IsKept(c) == c # ""

\* every run of whitespace becomes one hyphen: its first character is turned
\* into the hyphen, the others are dropped
HyphenateSpace(text, inSpace) ==
    LET after_space(i) == IF i = 1 THEN inSpace ELSE text[i - 1] \in Whitespace
        marked == [i \in 1..Len(text) |->
                      IF text[i] \notin Whitespace THEN text[i]
                      ELSE IF after_space(i) THEN "" ELSE "-"]
    IN  SelectSeq(marked, IsKept)

RECURSIVE StripLeft(_)
StripLeft(text) ==
    IF text # << >> /\ Head(text) = "-" THEN StripLeft(Tail(text)) ELSE text

RECURSIVE StripRight(_)
StripRight(text) ==
    IF text # << >> /\ text[Len(text)] = "-"
    THEN StripRight(SubSeq(text, 1, Len(text) - 1)) ELSE text

generate_slug(title) ==
    LET lowered  == [i \in 1..Len(title) |-> Lower(title[i])]
        kept     == KeepSlugChars(lowered)
        hyphened == HyphenateSpace(kept, FALSE)
        stripped == StripRight(StripLeft(hyphened))
    IN  SubSeq(stripped, 1, Min(Len(stripped), SlugMaxLen))

DigitStr == <<"1", "2", "3", "4", "5", "6", "7", "8", "9">>

\* a row of the user, other than exclude_post_id, already carries the slug
SlugTaken(posts, slug, user_id, exclude_post_id) ==
    \E d \in DOMAIN posts :
        /\ posts[d].user_id = user_id
        /\ posts[d].slug = Some(slug)
        /\ ~(IsSet(exclude_post_id) /\ d = Val(exclude_post_id))

RECURSIVE UniqueSlugFrom(_, _, _, _, _, _)
UniqueSlugFrom(posts, original_slug, slug, counter, user_id, exclude_post_id) ==
    IF ~SlugTaken(posts, slug, user_id, exclude_post_id) THEN slug
    ELSE UniqueSlugFrom(posts, original_slug,
                        original_slug \o <<"-", DigitStr[counter]>>,
                        counter + 1, user_id, exclude_post_id)

ensure_unique_slug(posts, slug, user_id, exclude_post_id) ==
    UniqueSlugFrom(posts, slug, slug, 1, user_id, exclude_post_id)

----------------------------------------------------------------------------
(* Rows and queries *)

\* a lookup by id alone, without the filter on the owner: the isolation
\* property C8 has to reject it
get_blog_post_by_id(post_id, user_id) ==
    IF post_id \in DOMAIN blog_posts THEN Some(blog_posts[post_id]) ELSE None

\* ContentService.get_blog_post: the row, if it exists and belongs to user_id
get_blog_post(post_id, user_id) ==
    IF post_id \in DOMAIN blog_posts /\ blog_posts[post_id].user_id = user_id
    THEN Some(blog_posts[post_id])
    ELSE None

VersionsOf(post_id) == post_versions[post_id]

VersionNumbers(post_id) ==
    {VersionsOf(post_id)[i].version_number : i \in 1..Len(VersionsOf(post_id))}

SetMax(S) == CHOOSE m \in S : \A x \in S : x <= m

\* ContentService._create_version, the number it assigns
NextVersionNumber(post_id) ==
    IF VersionNumbers(post_id) = {} THEN 1 ELSE SetMax(VersionNumbers(post_id)) + 1

\* ContentService.get_post_versions: newest first, [] for a post that is not the user's
RECURSIVE SortDesc(_)
SortDesc(rows) ==
    IF rows = << >> THEN << >>
    ELSE LET i == CHOOSE i \in 1..Len(rows) :
                      \A j \in 1..Len(rows) : rows[j].version_number <= rows[i].version_number
             rest == [j \in 1..(Len(rows) - 1) |-> IF j < i THEN rows[j] ELSE rows[j + 1]]
         IN  <<rows[i]>> \o SortDesc(rest)

get_post_versions(post_id, user_id) ==
    IF ~IsSet(get_blog_post(post_id, user_id)) THEN << >>
    ELSE SortDesc(VersionsOf(post_id))

\* ContentService.get_post_version: the rows .first() may return
get_post_version(post_id, version_number, user_id) ==
    IF ~IsSet(get_blog_post(post_id, user_id)) THEN {}
    ELSE {VersionsOf(post_id)[i] : i \in {j \in 1..Len(VersionsOf(post_id)) :
                                          VersionsOf(post_id)[j].version_number = version_number}}

\* a commit that stamps updated_at whether or not the row changed: the
\* property C7 has to reject it
CommitAlwaysStamps(old, new) == [new EXCEPT !.updated_at = now]

\* Column updated_at, onupdate=func.now(): stamped when the flush changes the row
Commit(old, new) ==
    IF new = old THEN old ELSE [new EXCEPT !.updated_at = now]

Idle == [at |-> "idle", post_id |-> "", title |-> << >>, content |-> << >>,
         word_count |-> 0, summary |-> << >>, version_number |-> 0, key |-> None]

InitialVersion == <<"Initial version">>
ContentUpdated == <<"Content updated">>
AutoSaved == <<"Auto-saved">>
RolledBack(n) == <<"Rolled back to version ", n>>

----------------------------------------------------------------------------
(* ContentService: every call starts when the process is idle.  A call that
   has to write a Version leaves the process at "create_version". *)

\* Version rows being written for the post by calls still under way
InFlight(post_id) ==
    Cardinality({p \in Procs : pc[p].at \in {"create_version", "insert_version"}
                               /\ pc[p].post_id = post_id})

RoomForVersion(post_id) ==
    /\ post_id \in DOMAIN post_versions
    /\ Len(VersionsOf(post_id)) + InFlight(post_id) < MaxVersions

\* the call goes on to _create_version(blog_post, summary) with the refreshed row
ToCreateVersion(p, post_id, row, summary, key) ==
    pc' = [pc EXCEPT ![p] = [at |-> "create_version", post_id |-> post_id,
                             title |-> row.title, content |-> row.content,
                             word_count |-> row.word_count, summary |-> summary,
                             version_number |-> 0, key |-> key]]

NewBlogPost(user_id, title, content, meta_description, keywords, slug) ==
    LET raw == [user_id |-> user_id, title |-> title, content |-> content,
                meta_description |-> meta_description,
                keywords |-> IF IsSet(keywords) /\ Len(Val(keywords)) > 0
                             THEN keywords ELSE None,
                slug |-> Some(slug), seo_score |-> 0, word_count |-> 0,
                reading_time |-> 0, updated_at |-> now]
        counted == calculate_reading_time(update_word_count(raw))
    IN  [counted EXCEPT !.seo_score = calculate_seo_score(counted)]

\* Column slug, unique=True: some row, of any user, carries the slug
SlugInUse(posts, slug) == \E d \in DOMAIN posts : posts[d].slug = Some(slug)

\* post_id is the uuid the row is given; when the slug is in use by a row of
\* another user the commit raises and nothing is stored
create_blog_post(p, post_id, user_id, title, content, meta_description, keywords, slug) ==
    /\ pc[p].at = "idle"
    /\ post_id \in DOMAIN post_versions \ DOMAIN blog_posts
    /\ RoomForVersion(post_id)
    /\ LET wanted == IF IsSet(slug) /\ Truthy(Val(slug)) THEN Val(slug)
                     ELSE generate_slug(title)
           unique == ensure_unique_slug(blog_posts, wanted, user_id, None)
           row    == NewBlogPost(user_id, title, content, meta_description, keywords, unique)
       IN  IF SlugInUse(blog_posts, unique)
           THEN UNCHANGED <<blog_posts, pc>>
           ELSE /\ blog_posts' = Put(blog_posts, post_id, row)
                /\ ToCreateVersion(p, post_id, row, InitialVersion, None)
    /\ UNCHANGED <<now, post_versions, autosave_cache, save_intervals, tasks>>

\* the row after update_blog_post has applied the patch, before the commit
ApplyUpdate(post_id, user_id, row, patch) ==
    LET original_content == row.content
        original_title   == row.title
        title_given   == IsSet(patch.title)
        content_given == IsSet(patch.content)
        fields == [row EXCEPT
                     !.title = IF title_given THEN Val(patch.title) ELSE @,
                     !.content = IF content_given THEN Val(patch.content) ELSE @,
                     !.meta_description = IF IsSet(patch.meta_description)
                                          THEN patch.meta_description ELSE @]
        title_changed == title_given /\ Truthy(Val(patch.title))
                         /\ Val(patch.title) # original_title
        content_changed == content_given /\ Truthy(Val(patch.content))
                           /\ Val(patch.content) # original_content
        slugged == IF title_changed
                   THEN [fields EXCEPT !.slug =
                           Some(ensure_unique_slug(blog_posts, generate_slug(Val(patch.title)),
                                                   user_id, Some(post_id)))]
                   ELSE fields
        counted == calculate_reading_time(update_word_count(slugged))
    IN  IF content_changed
        THEN [counted EXCEPT !.seo_score = calculate_seo_score(counted)]
        ELSE slugged

\* a test that looks at the body only: the property C16 has to reject it
BodyNeedsVersion(row, patch) ==
    IsSet(patch.content) /\ Truthy(Val(patch.content)) /\ Val(patch.content) # row.content

\* whether update_blog_post goes on to _create_version
UpdateNeedsVersion(row, patch) ==
    \/ IsSet(patch.content) /\ Truthy(Val(patch.content)) /\ Val(patch.content) # row.content
    \/ IsSet(patch.title) /\ Truthy(Val(patch.title)) /\ Val(patch.title) # row.title

\* the store part of update_blog_post, also used by _perform_autosave
DoUpdate(p, post_id, user_id, patch, changes_summary, key) ==
    LET old == blog_posts[post_id]
        new == Commit(old, ApplyUpdate(post_id, user_id, old, patch))
    IN  /\ blog_posts' = [blog_posts EXCEPT ![post_id] = new]
        /\ IF UpdateNeedsVersion(old, patch)
           THEN ToCreateVersion(p, post_id, new,
                                IF IsSet(changes_summary) /\ Truthy(Val(changes_summary))
                                THEN Val(changes_summary) ELSE ContentUpdated, key)
           ELSE IF IsSet(key)
                THEN pc' = [pc EXCEPT ![p] = [Idle EXCEPT !.at = "cleanup",
                                                          !.post_id = post_id, !.key = key]]
                ELSE UNCHANGED pc

update_blog_post(p, post_id, user_id, patch, changes_summary) ==
    /\ pc[p].at = "idle"
    /\ RoomForVersion(post_id)
    /\ IF IsSet(get_blog_post(post_id, user_id))
       THEN DoUpdate(p, post_id, user_id, patch, changes_summary, None)
       ELSE UNCHANGED <<blog_posts, pc>>
    /\ UNCHANGED <<now, post_versions, autosave_cache, save_intervals, tasks>>

\* a rollback that restores the body and leaves the title: the property C6
\* has to reject it
ApplyRollbackBodyOnly(row, version) ==
    LET filled == [row EXCEPT !.content = version.content]
        counted == calculate_reading_time(update_word_count(filled))
    IN  IF Truthy(version.content)
        THEN [counted EXCEPT !.seo_score = calculate_seo_score(counted)]
        ELSE row

\* the row after rollback_to_version has copied the version into it
ApplyRollback(row, version) ==
    LET titled == IF Truthy(version.title) THEN [row EXCEPT !.title = version.title] ELSE row
        filled == [titled EXCEPT !.content = version.content]
        counted == calculate_reading_time(update_word_count(filled))
    IN  IF Truthy(version.content)
        THEN [counted EXCEPT !.seo_score = calculate_seo_score(counted)]
        ELSE titled

rollback_to_version(p, post_id, version_number, user_id) ==
    /\ pc[p].at = "idle"
    /\ RoomForVersion(post_id)
    /\ IF get_post_version(post_id, version_number, user_id) # {}
       THEN \E version \in get_post_version(post_id, version_number, user_id) :
              LET old == blog_posts[post_id]
                  new == Commit(old, ApplyRollback(old, version))
              IN  /\ blog_posts' = [blog_posts EXCEPT ![post_id] = new]
                  /\ ToCreateVersion(p, post_id, new, RolledBack(version_number), None)
       ELSE UNCHANGED <<blog_posts, pc>>
    /\ UNCHANGED <<now, post_versions, autosave_cache, save_intervals, tasks>>

\* a delete that removes the row and leaves its versions behind: the property
\* C21 has to reject it
delete_row_only(p, post_id, user_id) ==
    /\ pc[p].at = "idle"
    /\ IF IsSet(get_blog_post(post_id, user_id))
       THEN blog_posts' = Remove(blog_posts, post_id)
       ELSE UNCHANGED blog_posts
    /\ UNCHANGED <<now, post_versions, pc, autosave_cache, save_intervals, tasks>>

\* delete_blog_post: the row goes, and its versions with it (cascade)
delete_blog_post(p, post_id, user_id) ==
    /\ pc[p].at = "idle"
    /\ IF IsSet(get_blog_post(post_id, user_id))
       THEN /\ blog_posts' = Remove(blog_posts, post_id)
            /\ post_versions' = [post_versions EXCEPT ![post_id] = << >>]
       ELSE UNCHANGED <<blog_posts, post_versions>>
    /\ UNCHANGED <<now, pc, autosave_cache, save_intervals, tasks>>

\* what the calls answer: a row, a list of rows, or the absence of one
update_answer(post_id, user_id, patch) ==
    IF IsSet(get_blog_post(post_id, user_id))
    THEN Some(Commit(blog_posts[post_id],
                     ApplyUpdate(post_id, user_id, blog_posts[post_id], patch)))
    ELSE None

delete_answer(post_id, user_id) == IsSet(get_blog_post(post_id, user_id))

rollback_answer(post_id, version_number, user_id) ==
    IF get_post_version(post_id, version_number, user_id) = {} THEN {None}
    ELSE {Some(Commit(blog_posts[post_id], ApplyRollback(blog_posts[post_id], version))) :
            version \in get_post_version(post_id, version_number, user_id)}

\* _create_version, the query for the last version
ReadLastVersion(p) ==
    /\ pc[p].at = "create_version"
    /\ pc' = [pc EXCEPT ![p].at = "insert_version",
                        ![p].version_number = NextVersionNumber(pc[p].post_id)]
    /\ UNCHANGED <<now, blog_posts, post_versions, autosave_cache, save_intervals, tasks>>

NewVersion(c) ==
    [version_number |-> c.version_number, title |-> c.title, content |-> c.content,
     changes_summary |-> c.summary, word_count |-> c.word_count]

\* _create_version, the insert and its commit; an autosave then marks its entry saved
InsertVersion(p) ==
    /\ pc[p].at = "insert_version"
    /\ pc[p].post_id \in DOMAIN blog_posts
    /\ post_versions' = [post_versions EXCEPT ![pc[p].post_id] = Append(@, NewVersion(pc[p]))]
    /\ IF IsSet(pc[p].key)
       THEN /\ pc' = [pc EXCEPT ![p].at = "cleanup"]
            /\ autosave_cache' =
                  IF Val(pc[p].key) \in DOMAIN autosave_cache
                  THEN [autosave_cache EXCEPT ![Val(pc[p].key)].save_pending = FALSE,
                                              ![Val(pc[p].key)].last_saved = Some(now)]
                  ELSE autosave_cache
       ELSE /\ pc' = [pc EXCEPT ![p] = Idle]
            /\ UNCHANGED autosave_cache
    /\ UNCHANGED <<now, blog_posts, save_intervals, tasks>>

----------------------------------------------------------------------------
(* AutoSaveService: handlers and tasks of the Server process *)

CacheKeyOf(user_id, post_id) == Key(user_id, post_id)

\* timedelta.seconds: the seconds of the difference with whole days left out
Seconds(delta) == delta % SecondsPerDay

\* schedule_autosave: whether this call hands _perform_autosave to the event loop
SaveDue(cache_key, current_time) ==
    \/ cache_key \notin DOMAIN save_intervals
    \/ Seconds(current_time - save_intervals[cache_key]) >= SaveInterval

Task(cache_key, origin) == [key |-> cache_key, origin |-> origin]

RoomForTask(task) == task \notin tasks /\ Cardinality(tasks) < MaxTasks

\* a call that puts the edit in the entry it finds and leaves its
\* save_pending as it is: the property C27 has to reject it
schedule_autosave_keeps_flag(post_id, user_id, content, title) ==
    LET cache_key == CacheKeyOf(user_id, post_id)
        entry == [post_id |-> post_id, user_id |-> user_id, content |-> content,
                  title |-> title, last_modified |-> now,
                  save_pending |-> IF cache_key \in DOMAIN autosave_cache
                                   THEN autosave_cache[cache_key].save_pending ELSE TRUE,
                  last_saved |-> None, conflict |-> None, conflict_timeout |-> None]
    IN  /\ pc[Server].at = "idle"
        /\ autosave_cache' = Put(autosave_cache, cache_key, entry)
        /\ IF SaveDue(cache_key, now)
           THEN /\ RoomForTask(Task(cache_key, "schedule"))
                /\ tasks' = tasks \cup {Task(cache_key, "schedule")}
                /\ save_intervals' = Put(save_intervals, cache_key, now)
           ELSE UNCHANGED <<tasks, save_intervals>>
        /\ UNCHANGED <<now, blog_posts, post_versions, pc>>

schedule_autosave(post_id, user_id, content, title) ==
    LET cache_key == CacheKeyOf(user_id, post_id)
        entry == [post_id |-> post_id, user_id |-> user_id, content |-> content,
                  title |-> title, last_modified |-> now, save_pending |-> TRUE,
                  last_saved |-> None, conflict |-> None, conflict_timeout |-> None]
    IN  /\ pc[Server].at = "idle"
        /\ autosave_cache' = Put(autosave_cache, cache_key, entry)
        /\ IF SaveDue(cache_key, now)
           THEN /\ RoomForTask(Task(cache_key, "schedule"))
                /\ tasks' = tasks \cup {Task(cache_key, "schedule")}
                /\ save_intervals' = Put(save_intervals, cache_key, now)
           ELSE UNCHANGED <<tasks, save_intervals>>
        /\ UNCHANGED <<now, blog_posts, post_versions, pc>>

\* the comparison of _has_conflict turned round: the property C2 has to
\* reject it
has_conflict_reversed(blog_post, cache_data) ==
    blog_post.updated_at < cache_data.last_modified

\* a comparison that also takes a row stamped at the time of the edit for a
\* conflict: the property C26 has to reject it
has_conflict_or_same_time(blog_post, cache_data) ==
    blog_post.updated_at >= cache_data.last_modified

\* _has_conflict
has_conflict(blog_post, cache_data) ==
    blog_post.updated_at > cache_data.last_modified

\* _handle_conflict: the entry with the conflict recorded
handle_conflict(blog_post, cache_data) ==
    [cache_data EXCEPT
        !.conflict = Some([detected_at |-> now,
                           remote_content |-> blog_post.content,
                           remote_title |-> blog_post.title,
                           local_content |-> cache_data.content,
                           local_title |-> cache_data.title]),
        !.conflict_timeout = Some(now + ConflictResolutionTimeout)]

\* a comparison that never finds the buffer equal to the post: the property
\* C18 has to reject it
never_matches(blog_post, cache_data) == FALSE

\* _perform_autosave: "check if content has actually changed"
buffer_matches_store(blog_post, cache_data) ==
    /\ blog_post.content = cache_data.content
    /\ blog_post.title = cache_data.title

\* an attempt that starts while another one has not run to its end, as it
\* could if the store calls gave the event loop back: the property C24 has to
\* reject it
runs_any_time(task) == TRUE

\* _perform_autosave holds the event loop from its first line to its return:
\* the calls into the store are synchronous and the coroutines it awaits do
\* not suspend, so an attempt starts when no handler or task is running
runs_alone(task) == pc[Server].at = "idle"

\* _perform_autosave, run by the event loop for a task it was handed
perform_autosave(task) ==
    LET cache_key == task.key IN
    /\ runs_alone(task)
    /\ task \in tasks
    /\ tasks' = tasks \ {task}
    /\ IF cache_key \notin DOMAIN autosave_cache
       THEN UNCHANGED <<blog_posts, pc, autosave_cache>>
       ELSE LET cache_data == autosave_cache[cache_key]
                found == get_blog_post(cache_data.post_id, cache_data.user_id)
            IN  IF ~IsSet(found)
                THEN UNCHANGED <<blog_posts, pc, autosave_cache>>
                ELSE IF buffer_matches_store(Val(found), cache_data)
                THEN /\ autosave_cache' =
                          [autosave_cache EXCEPT ![cache_key].save_pending = FALSE]
                     /\ UNCHANGED <<blog_posts, pc>>
                ELSE IF has_conflict(Val(found), cache_data)
                THEN /\ autosave_cache' =
                          [autosave_cache EXCEPT
                              ![cache_key] = handle_conflict(Val(found), cache_data)]
                     /\ UNCHANGED <<blog_posts, pc>>
                ELSE /\ RoomForVersion(cache_data.post_id)
                     /\ DoUpdate(Server, cache_data.post_id, cache_data.user_id,
                                 [title |-> Some(cache_data.title),
                                  content |-> Some(cache_data.content),
                                  meta_description |-> None],
                                 Some(AutoSaved), Some(cache_key))
                     /\ IF UpdateNeedsVersion(Val(found),
                                              [title |-> Some(cache_data.title),
                                               content |-> Some(cache_data.content)])
                        THEN UNCHANGED autosave_cache
                        ELSE autosave_cache' =
                               [autosave_cache EXCEPT ![cache_key].save_pending = FALSE,
                                                      ![cache_key].last_saved = Some(now)]
    /\ UNCHANGED <<now, post_versions, save_intervals>>

\* an attempt that marks the key saved although the store raised: the
\* property C13 has to reject it
autosave_error_marks_saved(task) ==
    /\ pc[Server].at = "idle"
    /\ task \in tasks
    /\ task.key \in DOMAIN autosave_cache
    /\ tasks' = tasks \ {task}
    /\ autosave_cache' = [autosave_cache EXCEPT ![task.key].save_pending = FALSE]
    /\ UNCHANGED <<now, blog_posts, post_versions, pc, save_intervals>>

\* _perform_autosave, the store raising before anything is committed (opening
\* the session, loading the post, or the commit of the update): the exception
\* leaves the task, the session is closed, the entry is as it was
autosave_store_error(task) ==
    /\ pc[Server].at = "idle"
    /\ task \in tasks
    /\ task.key \in DOMAIN autosave_cache
    /\ tasks' = tasks \ {task}
    /\ UNCHANGED <<now, blog_posts, post_versions, pc, autosave_cache, save_intervals>>

\* _create_version, the store raising in the query or in the commit of the
\* insert: the row of the post is committed already, the call ends there
create_version_error(p) ==
    /\ pc[p].at \in {"create_version", "insert_version"}
    /\ pc' = [pc EXCEPT ![p] = Idle]
    /\ UNCHANGED <<now, blog_posts, post_versions, autosave_cache, save_intervals, tasks>>

\* _cleanup_old_versions, the store raising: the autosave is committed and the
\* key marked, nothing is pruned
cleanup_error(p) ==
    /\ pc[p].at = "cleanup"
    /\ pc' = [pc EXCEPT ![p] = Idle]
    /\ UNCHANGED <<now, blog_posts, post_versions, autosave_cache, save_intervals, tasks>>

\* the rows left when those at the indexes in dropped are deleted
RECURSIVE Without(_, _, _)
Without(rows, dropped, i) ==
    IF i > Len(rows) THEN << >>
    ELSE (IF i \in dropped THEN << >> ELSE <<rows[i]>>) \o Without(rows, dropped, i + 1)

\* a pruning that keeps the first rows written: the property C17 has to
\* reject it
PruneKeepsOldest(rows, keep) ==
    {IF Len(rows) <= keep THEN rows ELSE SubSeq(rows, 1, keep)}

\* a pruning that always spares the first row written: the property C28 has to
\* reject it
PruneSparesFirst(rows, keep) ==
    {IF Len(rows) <= keep THEN rows
     ELSE <<rows[1]>> \o SubSeq(rows, Len(rows) - keep + 2, Len(rows))}

\* _cleanup_old_versions: what may be left of rows when all but the keep rows
\* first in descending version_number are deleted; rows with the same number
\* come in the order the store happens to return them
PruneOutcomes(rows, keep) ==
    IF Len(rows) <= keep THEN {rows}
    ELSE LET drop == Len(rows) - keep
             Below(t) == {i \in 1..Len(rows) : rows[i].version_number < t}
             At(t)    == {i \in 1..Len(rows) : rows[i].version_number = t}
             t == CHOOSE t \in {rows[i].version_number : i \in 1..Len(rows)} :
                     /\ Cardinality(Below(t)) <= drop
                     /\ drop <= Cardinality(Below(t)) + Cardinality(At(t))
         IN  {Without(rows, Below(t) \cup D, 1) :
                 D \in {D \in SUBSET At(t) : Cardinality(D) = drop - Cardinality(Below(t))}}

\* _cleanup_old_versions, after an autosave has committed
cleanup_old_versions(p) ==
    /\ pc[p].at = "cleanup"
    /\ \E kept \in PruneOutcomes(post_versions[pc[p].post_id], MaxVersionsPerPost) :
          post_versions' = [post_versions EXCEPT ![pc[p].post_id] = kept]
    /\ pc' = [pc EXCEPT ![p] = Idle]
    /\ UNCHANGED <<now, blog_posts, autosave_cache, save_intervals, tasks>>

\* a forced save that waits for the interval like schedule_autosave: the
\* property C19 has to reject it
force_save_throttled(post_id, user_id) ==
    LET cache_key == CacheKeyOf(user_id, post_id) IN
    /\ pc[Server].at = "idle"
    /\ IF cache_key \notin DOMAIN autosave_cache \/ ~SaveDue(cache_key, now)
       THEN UNCHANGED tasks
       ELSE /\ RoomForTask(Task(cache_key, "force"))
            /\ tasks' = tasks \cup {Task(cache_key, "force")}
    /\ UNCHANGED <<now, blog_posts, post_versions, pc, autosave_cache, save_intervals>>

\* force_save: what the call answers
force_save_answer(post_id, user_id) ==
    IF CacheKeyOf(user_id, post_id) \notin DOMAIN autosave_cache
    THEN [status |-> "no_content", message |-> "No content to save"]
    ELSE [status |-> "saving", message |-> "Save initiated"]

force_save(post_id, user_id) ==
    LET cache_key == CacheKeyOf(user_id, post_id) IN
    /\ pc[Server].at = "idle"
    /\ IF cache_key \notin DOMAIN autosave_cache
       THEN UNCHANGED tasks
       ELSE /\ RoomForTask(Task(cache_key, "force"))
            /\ tasks' = tasks \cup {Task(cache_key, "force")}
    /\ UNCHANGED <<now, blog_posts, post_versions, pc, autosave_cache, save_intervals>>

\* _calculate_next_save_time: seconds until the next save is due, if a save
\* was ever triggered for the key
calculate_next_save_time(cache_key) ==
    IF cache_key \notin DOMAIN save_intervals THEN None
    ELSE Some(Max(0, SaveInterval - Seconds(now - save_intervals[cache_key])))

\* get_autosave_status: what the call answers
autosave_status(post_id, user_id) ==
    LET cache_key == CacheKeyOf(user_id, post_id) IN
    IF cache_key \notin DOMAIN autosave_cache
    THEN [status |-> "no_autosave", last_modified |-> None, last_saved |-> None,
          next_save_in |-> None]
    ELSE LET cache_data == autosave_cache[cache_key] IN
         [status |-> IF cache_data.save_pending THEN "pending" ELSE "saved",
          last_modified |-> Some(cache_data.last_modified),
          last_saved |-> cache_data.last_saved,
          next_save_in |-> calculate_next_save_time(cache_key)]

\* a status query that files an empty entry for a key it does not know: the
\* property C20 has to reject it
get_autosave_status_filing(post_id, user_id) ==
    /\ pc[Server].at = "idle"
    /\ autosave_cache' =
          IF CacheKeyOf(user_id, post_id) \in DOMAIN autosave_cache THEN autosave_cache
          ELSE Put(autosave_cache, CacheKeyOf(user_id, post_id),
                   [post_id |-> post_id, user_id |-> user_id, content |-> << >>,
                    title |-> << >>, last_modified |-> now, save_pending |-> FALSE,
                    last_saved |-> None, conflict |-> None, conflict_timeout |-> None])
    /\ UNCHANGED <<now, blog_posts, post_versions, pc, save_intervals, tasks>>

\* get_autosave_status, the call: it reads the entry and the time of the last
\* trigger with dict.get and writes nothing
get_autosave_status(post_id, user_id) ==
    /\ pc[Server].at = "idle"
    /\ UNCHANGED <<now, blog_posts, post_versions, pc, autosave_cache, save_intervals, tasks>>

\* a reload that takes the stored body and keeps the buffered title: the
\* property C11 has to reject it
reload_body_only(cache_data, blog_post) ==
    [cache_data EXCEPT !.content = blog_post.content,
                       !.save_pending = FALSE,
                       !.last_saved = Some(now)]

\* resolve_conflict, keep_remote: cache_data.update(...) with the stored row
reload_from_store(cache_data, blog_post) ==
    [cache_data EXCEPT !.content = blog_post.content,
                       !.title = blog_post.title,
                       !.save_pending = FALSE,
                       !.last_saved = Some(now)]

Resolutions == {"keep_local", "keep_remote", "merge", "other"}

\* a test for merged content that forgets the resolution: the property C12
\* has to reject it
has_merged_content(resolution, content) == IsSet(content) /\ Truthy(Val(content))

\* resolve_conflict: elif resolution == "merge" and content
is_merge(resolution, content) ==
    resolution = "merge" /\ IsSet(content) /\ Truthy(Val(content))

\* resolve_conflict: what the call answers (the action, or the error)
resolve_conflict_answer(post_id, user_id, resolution, content) ==
    IF CacheKeyOf(user_id, post_id) \notin DOMAIN autosave_cache
    THEN [error |-> "No conflict to resolve", action |-> ""]
    ELSE IF resolution = "keep_local"
    THEN [error |-> "", action |-> "kept_local_changes"]
    ELSE IF resolution = "keep_remote"
    THEN [error |-> "", action |-> "kept_remote_changes"]
    ELSE IF is_merge(resolution, content)
    THEN [error |-> "", action |-> "merged_changes"]
    ELSE [error |-> "Invalid resolution method", action |-> ""]

resolve_conflict(post_id, user_id, resolution, content) ==
    LET cache_key == CacheKeyOf(user_id, post_id) IN
    /\ pc[Server].at = "idle"
    /\ IF cache_key \notin DOMAIN autosave_cache
       THEN UNCHANGED <<autosave_cache, tasks>>
       ELSE IF resolution = "keep_local"
       THEN /\ RoomForTask(Task(cache_key, "keep_local"))
            /\ tasks' = tasks \cup {Task(cache_key, "keep_local")}
            /\ UNCHANGED autosave_cache
       ELSE IF resolution = "keep_remote"
       THEN /\ autosave_cache' =
                 IF IsSet(get_blog_post(post_id, user_id))
                 THEN [autosave_cache EXCEPT
                         ![cache_key] = reload_from_store(@, Val(get_blog_post(post_id, user_id)))]
                 ELSE autosave_cache
            /\ UNCHANGED tasks
       ELSE IF is_merge(resolution, content)
       THEN /\ RoomForTask(Task(cache_key, "merge"))
            /\ autosave_cache' = [autosave_cache EXCEPT ![cache_key].content = Val(content),
                                                        ![cache_key].save_pending = TRUE]
            /\ tasks' = tasks \cup {Task(cache_key, "merge")}
       ELSE UNCHANGED <<autosave_cache, tasks>>
    /\ UNCHANGED <<now, blog_posts, post_versions, pc, save_intervals>>

\* cleanup_cache: the entry was last edited before the cutoff
is_stale(cache_data, cutoff_time) == cache_data.last_modified < cutoff_time

\* a sweep that starts while an attempt has not run to its end, as it could if
\* it ran in a thread of its own: the property C30 has to reject it
sweeps_any_time == TRUE

\* cleanup_cache is a plain method: called from a handler or a task of the
\* event loop it runs from its first line to its return between two of them,
\* and _perform_autosave never gives the loop back before its return
sweeps_alone == pc[Server].at = "idle"

\* cleanup_cache(max_age_hours): the entries last edited before the cutoff
\* leave the cache, and their throttle timestamps with them
cleanup_cache(max_age_hours) ==
    LET cutoff_time == now - max_age_hours * SecondsPerHour
        keys_to_remove == {k \in DOMAIN autosave_cache :
                              is_stale(autosave_cache[k], cutoff_time)}
    IN  /\ sweeps_alone
        /\ autosave_cache' = [k \in DOMAIN autosave_cache \ keys_to_remove |->
                                 autosave_cache[k]]
        /\ save_intervals' = [k \in DOMAIN save_intervals \ keys_to_remove |->
                                 save_intervals[k]]
        /\ UNCHANGED <<now, blog_posts, post_versions, pc, tasks>>

\* the clock moves on
Tick(d) ==
    /\ now + d <= MaxTime
    /\ now' = now + d
    /\ UNCHANGED <<blog_posts, post_versions, pc, autosave_cache, save_intervals, tasks>>

----------------------------------------------------------------------------
(* The system: an empty store and an empty cache; any process may call the
   ContentService, the Server process also runs the AutoSaveService. *)

Init ==
    /\ now = 0
    /\ blog_posts = << >>
    /\ post_versions = [d \in Posts |-> << >>]
    /\ pc = [p \in Procs |-> Idle]
    /\ autosave_cache = << >>
    /\ save_intervals = << >>
    /\ tasks = {}

TitleBodyPatches ==
    {[title |-> t, content |-> c, meta_description |-> None] :
        t \in {None} \cup {Some(x) : x \in Titles},
        c \in {None} \cup {Some(x) : x \in Bodies}}

MetaPatches ==
    {[title |-> t, content |-> c, meta_description |-> Some(M1)] :
        t \in {None, Some(T1)}, c \in {None, Some(B1)}}

RemotePatches ==
    {[title |-> None, content |-> Some(c), meta_description |-> None] : c \in Bodies}
    \cup {[title |-> Some(T2), content |-> None, meta_description |-> None]}

Create ==
    \E p \in Procs, d \in Posts :
        create_blog_post(p, d, Owner, T1, B1, None, None, None)

Update ==
    \E p \in Procs, d \in Posts, u \in Users, patch \in TitleBodyPatches \cup MetaPatches :
        update_blog_post(p, d, u, patch, None)

Rollback ==
    \E p \in Procs, d \in Posts, u \in Users, n \in 1..MaxVersions :
        rollback_to_version(p, d, n, u)

VersionStep == \E p \in Procs : ReadLastVersion(p) \/ InsertVersion(p)

CleanupStep == \E p \in Procs : cleanup_old_versions(p)

RunTask == \E task \in tasks : perform_autosave(task)

----------------------------------------------------------------------------
(* SpecRepo: the ContentService called by two processes *)

NextRepo ==
    \/ Create
    \/ Update
    \/ Rollback
    \/ VersionStep
    \/ Tick(SaveInterval)

SpecRepo == Init /\ [][NextRepo]_vars

----------------------------------------------------------------------------
(* SpecAuto: the owner's drafts in the Server process, and a second writer
   of the same owner (another session or device) served by the other process.
   Drafts are buffered for posts that exist: a client learns a post id from
   the answer of create_blog_post. *)

RemoteUpdate ==
    \E d \in Posts, patch \in RemotePatches :
        update_blog_post("p2", d, Owner, patch, None)

OwnerSchedule ==
    \E d \in DOMAIN blog_posts, c \in Bodies : schedule_autosave(d, Owner, c, T1)

OwnerForce == \E d \in DOMAIN blog_posts : force_save(d, Owner)

OwnerResolve ==
    \E d \in DOMAIN blog_posts, r \in Resolutions, c \in {None, Some(B2)} :
        resolve_conflict(d, Owner, r, c)

NextAuto ==
    \/ Create
    \/ RemoteUpdate
    \/ VersionStep
    \/ CleanupStep
    \/ OwnerSchedule
    \/ RunTask
    \/ OwnerForce
    \/ OwnerResolve
    \/ Tick(SaveInterval)

SpecAuto == Init /\ [][NextAuto]_vars

----------------------------------------------------------------------------
(* SpecBurst: the owner only edits through schedule_autosave.  FairDraft is
   the same system with one title and a clock that moves a save interval at a
   time, and adds what is sure to happen: the event loop runs the tasks it
   was handed, a call under way goes on, time passes. *)

BurstSchedule ==
    \E d \in DOMAIN blog_posts, c \in Bodies, t \in Titles : schedule_autosave(d, Owner, c, t)

Clock == \E d \in TickSteps : Tick(d)

NextBurst ==
    \/ Create
    \/ BurstSchedule
    \/ RunTask
    \/ VersionStep
    \/ CleanupStep
    \/ Clock

SpecBurst == Init /\ [][NextBurst]_vars

LongTick == Tick(SaveInterval)

NextDraft ==
    \/ Create
    \/ OwnerSchedule
    \/ RunTask
    \/ VersionStep
    \/ CleanupStep
    \/ LongTick

FairDraft ==
    /\ Init
    /\ [][NextDraft]_vars
    /\ WF_vars(RunTask)
    /\ WF_vars(VersionStep)
    /\ WF_vars(CleanupStep)
    /\ WF_vars(LongTick)

----------------------------------------------------------------------------
(* SpecSummary: the owner's updates, with and without a summary of changes *)

Edited == <<"Edited">>

Summaries == {None, Some(Edited), Some(<< >>)}

SummaryUpdate ==
    \E p \in Procs, d \in Posts, patch \in TitleBodyPatches, summary \in Summaries :
        update_blog_post(p, d, Owner, patch, summary)

NextSummary ==
    \/ Create
    \/ SummaryUpdate
    \/ VersionStep

SpecSummary == Init /\ [][NextSummary]_vars

----------------------------------------------------------------------------
(* SpecPrune: the pruning that follows an autosave, on a post that holds n
   Versions; the rows twin and twin + 1, written in a race, share a number *)

VersionRows(n, twin) ==
    [i \in 1..n |->
        [version_number |-> IF twin > 0 /\ i > twin THEN i - 1 ELSE i,
         title |-> T1,
         content |-> IF i % 2 = n % 2 THEN B2 ELSE B1,
         word_count |-> IF i % 2 = n % 2 THEN WordCountOf(B2) ELSE WordCountOf(B1),
         changes_summary |-> IF i = 1 THEN InitialVersion
                             ELSE IF i = n THEN AutoSaved ELSE ContentUpdated]]

InitPrune ==
    /\ now = 0
    /\ blog_posts = [d \in Posts |-> NewBlogPost(Owner, T1, B2, None, None, generate_slug(T1))]
    /\ \E n \in 2..MaxRows, twin \in 0..MaxTwin :
          /\ twin < n
          /\ post_versions = [d \in Posts |-> VersionRows(n, twin)]
    /\ pc = [p \in Procs |->
               IF p = Server
               THEN [Idle EXCEPT !.at = "cleanup", !.post_id = "d1",
                                 !.key = Some(Key(Owner, "d1"))]
               ELSE Idle]
    /\ autosave_cache =
          [k \in {Key(Owner, "d1")} |->
              [post_id |-> "d1", user_id |-> Owner, content |-> B2, title |-> T1,
               last_modified |-> 0, save_pending |-> FALSE, last_saved |-> Some(0),
               conflict |-> None, conflict_timeout |-> None]]
    /\ save_intervals = [k \in {Key(Owner, "d1")} |-> 0]
    /\ tasks = {}

NextPrune == CleanupStep

SpecPrune == InitPrune /\ [][NextPrune]_vars

----------------------------------------------------------------------------
(* SpecFail: the owner and another user save drafts of the owner's post, and
   the store may raise in any call that reaches it *)

StoreError ==
    \/ \E task \in tasks : autosave_store_error(task)
    \/ \E p \in Procs : create_version_error(p)
    \/ \E p \in Procs : cleanup_error(p)

AnyStatus == \E d \in Posts \cup {Missing}, u \in Users : get_autosave_status(d, u)

OtherDraft == \E d \in DOMAIN blog_posts : schedule_autosave(d, Other, B2, T2)

NextFail ==
    \/ Create
    \/ OwnerSchedule
    \/ OtherDraft
    \/ OwnerForce
    \/ AnyStatus
    \/ RunTask
    \/ VersionStep
    \/ CleanupStep
    \/ StoreError
    \/ Tick(SaveInterval)

SpecFail == Init /\ [][NextFail]_vars

----------------------------------------------------------------------------
(* SpecDelete: posts are created and edited, and later deleted; a delete is
   asked for by the owner, by another user, and for an id that was never
   issued.  Post ids are fresh uuids, so no post is created under the id of a
   deleted one: posts are created in the first period, deletes come after it.
   A Version whose post is gone cannot be inserted (the foreign key on
   post_id): the call that was writing it ends with the store's error. *)

EarlyCreate == now = 0 /\ Create

EditForDelete ==
    \E p \in Procs, d \in Posts, patch \in RemotePatches :
        update_blog_post(p, d, Owner, patch, None)

AnyDelete ==
    /\ now > 0
    /\ \E p \in Procs, d \in Posts \cup {Missing}, u \in Users : delete_blog_post(p, d, u)

VersionError == \E p \in Procs : create_version_error(p)

NextDelete ==
    \/ EarlyCreate
    \/ EditForDelete
    \/ VersionStep
    \/ AnyDelete
    \/ VersionError
    \/ Tick(SaveInterval)

SpecDelete == Init /\ [][NextDelete]_vars

----------------------------------------------------------------------------
(* SpecSlug: the two users create posts, some under the same title; the ids
   of the posts are taken in the order of PostIds *)

PostIds == <<"d1", "d2", "d3">>

InitSlug ==
    /\ now = 0
    /\ blog_posts = << >>
    /\ post_versions = [d \in {PostIds[i] : i \in 1..Len(PostIds)} |-> << >>]
    /\ pc = [p \in Procs |-> Idle]
    /\ autosave_cache = << >>
    /\ save_intervals = << >>
    /\ tasks = {}

CreateTitled ==
    \E p \in Procs, u \in Users, t \in Titles :
        /\ Cardinality(DOMAIN blog_posts) < Len(PostIds)
        /\ create_blog_post(p, PostIds[Cardinality(DOMAIN blog_posts) + 1], u, t, B1,
                            None, None, None)

NextSlug ==
    \/ CreateTitled
    \/ VersionStep

SpecSlug == InitSlug /\ [][NextSlug]_vars

----------------------------------------------------------------------------
(* SpecSeo: posts are created with titles, meta descriptions and bodies whose
   lengths lie on both sides of every limit of the score *)

Rep(c, n) == [i \in 1..n |-> c]

\* a body of n words
WordsOf(n) == [i \in 1..(2 * n - 1) |-> IF i % 2 = 1 THEN "a" ELSE " "]

SeoTitles == {Rep("a", n) : n \in {4, 5, 60, 61, 70, 71}} \cup {Rep("!", 5)}
SeoMetas == {None} \cup {Some(Rep("m", n)) : n \in {0, 119, 120, 160, 161, 180, 181}}
SeoBodies == {WordsOf(n) : n \in {199, 200, 299, 300}}
SeoKeywords == {None, Some(<< >>), Some(<<"k">>)}

CreateScored ==
    \E p \in Procs, d \in Posts, t \in SeoTitles, m \in SeoMetas, c \in SeoBodies,
       k \in SeoKeywords :
        create_blog_post(p, d, Owner, t, c, m, k, None)

NextSeo ==
    \/ CreateScored
    \/ VersionStep

SpecSeo == Init /\ [][NextSeo]_vars

----------------------------------------------------------------------------
(* SpecTwin: the owner has created the post, buffered a draft of it with
   schedule_autosave, which triggered an attempt, and asked for force_save
   before the event loop ran that attempt: two attempts of one key are
   waiting.  The owner goes on editing, a second writer updates the post. *)

InitTwin ==
    /\ now = 0
    /\ blog_posts = [d \in Posts |-> NewBlogPost(Owner, T1, B1, None, None, generate_slug(T1))]
    /\ post_versions =
          [d \in Posts |-> <<[version_number |-> 1, title |-> T1, content |-> B1,
                              changes_summary |-> InitialVersion,
                              word_count |-> WordCountOf(B1)]>>]
    /\ pc = [p \in Procs |-> Idle]
    /\ \E c \in Bodies, t \in Titles :
          autosave_cache =
             [k \in {Key(Owner, "d1")} |->
                 [post_id |-> "d1", user_id |-> Owner, content |-> c, title |-> t,
                  last_modified |-> 0, save_pending |-> TRUE, last_saved |-> None,
                  conflict |-> None, conflict_timeout |-> None]]
    /\ save_intervals = [k \in {Key(Owner, "d1")} |-> 0]
    /\ tasks = {Task(Key(Owner, "d1"), "schedule"), Task(Key(Owner, "d1"), "force")}

NextTwin ==
    \/ RunTask
    \/ VersionStep
    \/ CleanupStep
    \/ OwnerSchedule
    \/ OwnerForce
    \/ RemoteUpdate
    \/ Tick(SaveInterval)

SpecTwin == InitTwin /\ [][NextTwin]_vars

----------------------------------------------------------------------------
(* SpecDay: the owner edits through schedule_autosave, at once, some seconds
   later, and after the editor was left alone for a day *)

\* a day passes, once; by then the event loop has run what it was handed and
\* every call has returned
TickDay ==
    /\ now <= MaxTime
    /\ tasks = {}
    /\ \A p \in Procs : pc[p].at = "idle"
    /\ now' = now + SecondsPerDay
    /\ UNCHANGED <<blog_posts, post_versions, pc, autosave_cache, save_intervals, tasks>>

NextDay ==
    \/ Create
    \/ OwnerSchedule
    \/ RunTask
    \/ VersionStep
    \/ CleanupStep
    \/ Clock
    \/ TickDay

SpecDay == Init /\ [][NextDay]_vars

----------------------------------------------------------------------------
(* SpecOwn: the post is written by its creation and by the persists of the
   owner's key only; the owner edits through schedule_autosave and asks for
   force_save *)

NextOwn ==
    \/ Create
    \/ OwnerSchedule
    \/ OwnerForce
    \/ RunTask
    \/ VersionStep
    \/ CleanupStep
    \/ Clock

SpecOwn == Init /\ [][NextOwn]_vars

----------------------------------------------------------------------------
(* SpecSweep: the owner and a second user edit through schedule_autosave, the
   owner asks for force_save, a day may pass while nothing is queued or
   running, and the cache is swept with the default age *)

SweepHours == {24}

AnySchedule ==
    \E d \in DOMAIN blog_posts, u \in Users, c \in Bodies : schedule_autosave(d, u, c, T1)

Sweep == \E h \in SweepHours : cleanup_cache(h)

NextSweep ==
    \/ Create
    \/ AnySchedule
    \/ OwnerForce
    \/ RunTask
    \/ VersionStep
    \/ CleanupStep
    \/ Tick(SaveInterval)
    \/ TickDay
    \/ Sweep

SpecSweep == Init /\ [][NextSweep]_vars

----------------------------------------------------------------------------
(* SpecRange: the Versions of a post from its creation on, written by two
   processes; and the Versions of a post that holds about as many as the cap,
   when an autosave and the update of a second writer have both committed
   their change of the post and each has its Version still to write, the
   autosave's pruning to follow *)

InitRange ==
    /\ now = 0
    /\ blog_posts = [d \in Posts |-> NewBlogPost(Owner, T1, B2, None, None, generate_slug(T1))]
    /\ \E n \in (MaxVersionsPerPost - 2)..MaxRows, twin \in 0..MaxTwin :
          post_versions = [d \in Posts |-> VersionRows(n, twin)]
    /\ pc = [p \in Procs |->
               IF p = Server
               THEN [Idle EXCEPT !.at = "create_version", !.post_id = "d1", !.title = T1,
                                 !.content = B1, !.word_count = WordCountOf(B1),
                                 !.summary = AutoSaved, !.key = Some(Key(Owner, "d1"))]
               ELSE [Idle EXCEPT !.at = "create_version", !.post_id = "d1", !.title = T1,
                                 !.content = B2, !.word_count = WordCountOf(B2),
                                 !.summary = ContentUpdated]]
    /\ autosave_cache =
          [k \in {Key(Owner, "d1")} |->
              [post_id |-> "d1", user_id |-> Owner, content |-> B1, title |-> T1,
               last_modified |-> 0, save_pending |-> TRUE, last_saved |-> None,
               conflict |-> None, conflict_timeout |-> None]]
    /\ save_intervals = [k \in {Key(Owner, "d1")} |-> 0]
    /\ tasks = {}

NextRange ==
    \/ Create
    \/ RemoteUpdate
    \/ VersionStep
    \/ CleanupStep

SpecRange == (Init \/ InitRange) /\ [][NextRange]_vars

----------------------------------------------------------------------------
(* SpecTenant: the owner creates and edits the post; every other call is
   issued by another user *)

OwnerUpdate ==
    \E p \in Procs, d \in Posts, patch \in RemotePatches :
        update_blog_post(p, d, Owner, patch, None)

OtherUpdate ==
    \E p \in Procs, d \in Posts, patch \in TitleBodyPatches :
        update_blog_post(p, d, Other, patch, None)

OtherDelete == \E p \in Procs, d \in Posts : delete_blog_post(p, d, Other)

OtherRollback ==
    \E p \in Procs, d \in Posts, n \in 1..MaxVersions : rollback_to_version(p, d, n, Other)

OtherSchedule ==
    \E d \in DOMAIN blog_posts, c \in Bodies : schedule_autosave(d, Other, c, T2)

OtherForce == \E d \in DOMAIN blog_posts : force_save(d, Other)

OtherResolve ==
    \E d \in DOMAIN blog_posts, r \in Resolutions, c \in {None, Some(B2)} :
        resolve_conflict(d, Other, r, c)

NextTenant ==
    \/ Create
    \/ OwnerUpdate
    \/ VersionStep
    \/ OtherUpdate
    \/ OtherDelete
    \/ OtherRollback
    \/ OtherSchedule
    \/ RunTask
    \/ OtherForce
    \/ OtherResolve
    \/ Tick(SaveInterval)

SpecTenant == Init /\ [][NextTenant]_vars

----------------------------------------------------------------------------
(* Claims *)

LastVersion(post_id) == post_versions[post_id][Len(post_versions[post_id])]

Stored(post_id) == <<blog_posts[post_id].title, blog_posts[post_id].content>>
Buffered(cache_key) == <<autosave_cache[cache_key].title, autosave_cache[cache_key].content>>

\* C1: the version numbers of a post, in the order the rows were written, are
\* strictly increasing: no two rows share a number and each new row's number
\* is above all numbers given before (checked under SpecRepo)
C1_VersionNumbersIncrease ==
    \A d \in Posts : \A i, j \in 1..Len(post_versions[d]) :
        i < j => post_versions[d][i].version_number < post_versions[d][j].version_number

\* C2: an autosave attempt that finds the stored row committed after the
\* buffer's last_modified, with a title or body other than the buffered one,
\* records a conflict holding the remote and the local title and body, and
\* leaves the row and the versions as they are (checked under SpecAuto)
C2_ConflictOnRemoteChange ==
    [][\A task \in tasks :
         LET k == task.key IN
         (/\ perform_autosave(task)
          /\ k \in DOMAIN autosave_cache
          /\ IsSet(get_blog_post(k[2], k[1]))
          /\ blog_posts[k[2]].updated_at > autosave_cache[k].last_modified
          /\ Stored(k[2]) # Buffered(k))
         => /\ k \in DOMAIN autosave_cache'
            /\ IsSet(autosave_cache'[k].conflict)
            /\ Val(autosave_cache'[k].conflict).remote_title = blog_posts[k[2]].title
            /\ Val(autosave_cache'[k].conflict).remote_content = blog_posts[k[2]].content
            /\ Val(autosave_cache'[k].conflict).local_title = autosave_cache[k].title
            /\ Val(autosave_cache'[k].conflict).local_content = autosave_cache[k].content
            /\ blog_posts' = blog_posts
            /\ post_versions' = post_versions
            /\ pc' = pc]_vars

\* C2 witness: a conflict is recorded for a draft older than the stored row,
\* and the row still holds the remote writer's title and body
C2_Witness ==
    \E k \in DOMAIN autosave_cache :
        /\ IsSet(autosave_cache[k].conflict)
        /\ k[2] \in DOMAIN blog_posts
        /\ blog_posts[k[2]].updated_at > autosave_cache[k].last_modified
        /\ Val(autosave_cache[k].conflict).remote_content = blog_posts[k[2]].content
        /\ Val(autosave_cache[k].conflict).local_content = autosave_cache[k].content
        /\ Stored(k[2]) # Buffered(k)
        /\ tasks = {}

\* C3: while a key holds a conflict record, a step that is not resolve_conflict
\* for that key keeps the record and commits nothing buffered under the key
\* (checked under SpecAuto)
C3_ConflictHeldUntilResolved ==
    [][\A k \in Keys :
         (/\ k \in DOMAIN autosave_cache
          /\ IsSet(autosave_cache[k].conflict)
          /\ ~(\E r \in Resolutions, c \in {None, Some(B2)} :
                  resolve_conflict(k[2], k[1], r, c)))
         => /\ k \in DOMAIN autosave_cache'
            /\ IsSet(autosave_cache'[k].conflict)
            /\ ~(pc[Server].at = "idle" /\ pc'[Server].key = Some(k))]_vars

\* C4: when the persist triggered by a burst of schedule_autosave calls (all
\* within one save interval of the call that triggered it) has completed, the
\* Version it wrote carries the title and body of the last call of the burst
\* (checked under SpecBurst)
C4_BurstPersistsLastCall ==
    \A k \in DOMAIN autosave_cache :
        (/\ k \in DOMAIN save_intervals
         /\ k[2] \in DOMAIN blog_posts
         /\ tasks = {}
         /\ pc[Server].at = "idle"
         /\ autosave_cache[k].last_modified >= save_intervals[k]
         /\ autosave_cache[k].last_modified - save_intervals[k] < SaveInterval
         /\ blog_posts[k[2]].updated_at >= save_intervals[k]
         /\ Len(post_versions[k[2]]) > 0
         /\ LastVersion(k[2]).changes_summary = AutoSaved)
        => /\ LastVersion(k[2]).title = autosave_cache[k].title
           /\ LastVersion(k[2]).content = autosave_cache[k].content

IntervalElapsed(cache_key) ==
    /\ cache_key \in DOMAIN save_intervals
    /\ now - save_intervals[cache_key] >= SaveInterval

\* C5: a pending draft without conflict, of a post that exists, is persisted
\* once the save interval has elapsed, whatever the caller does afterwards
\* (checked under FairDraft)
C5_PendingDraftIsPersisted ==
    \A k \in Keys :
        (/\ k \in DOMAIN autosave_cache
         /\ autosave_cache[k].save_pending
         /\ ~IsSet(autosave_cache[k].conflict)
         /\ IsSet(get_blog_post(k[2], k[1]))
         /\ IntervalElapsed(k))
        ~> (/\ k \in DOMAIN autosave_cache
            /\ ~autosave_cache[k].save_pending)


AllIdle == \A p \in Procs : pc[p].at = "idle"

RollbackSummaries == {RolledBack(n) : n \in 1..(MaxVersions + 1)}

\* C6: rollback_to_version(post, N) of an existing version N leaves the post's
\* title and body equal to the snapshot of (a row numbered) N without touching
\* the versions, and the call then appends exactly one row, whose summary is
\* "Rolled back to version N" and whose title and body are that snapshot,
\* after the rows that were there (checked under SpecRepo)
C6_RollbackRestoresVersion ==
    [][/\ \A p \in Procs, d \in Posts, u \in Users, n \in 1..(MaxVersions + 1) :
            (rollback_to_version(p, d, n, u) /\ get_post_version(d, n, u) # {})
            => /\ \E v \in get_post_version(d, n, u) :
                     /\ blog_posts'[d].title = v.title
                     /\ blog_posts'[d].content = v.content
               /\ post_versions' = post_versions
               /\ pc'[p].at = "create_version"
               /\ pc'[p].summary = RolledBack(n)
               /\ pc'[p].title = blog_posts'[d].title
               /\ pc'[p].content = blog_posts'[d].content
       /\ \A p \in Procs :
            (InsertVersion(p) /\ pc[p].summary \in RollbackSummaries)
            => LET d == pc[p].post_id
                   n == pc[p].summary[2]
               IN  /\ Len(post_versions'[d]) = Len(post_versions[d]) + 1
                   /\ SubSeq(post_versions'[d], 1, Len(post_versions[d])) = post_versions[d]
                   /\ post_versions'[d][Len(post_versions[d]) + 1].changes_summary = RolledBack(n)
                   /\ \E i \in 1..Len(post_versions[d]) :
                         /\ post_versions[d][i].version_number = n
                         /\ post_versions[d][i].title
                              = post_versions'[d][Len(post_versions[d]) + 1].title
                         /\ post_versions[d][i].content
                              = post_versions'[d][Len(post_versions[d]) + 1].content]_vars

\* C6 witness: a post edited once and then rolled back to version 1: its last
\* row is the rollback's, and it reads as version 1, not as version 2
C6_Witness ==
    \E d \in DOMAIN blog_posts :
        /\ AllIdle
        /\ Len(post_versions[d]) = 3
        /\ post_versions[d][1].version_number = 1
        /\ post_versions[d][2].version_number = 2
        /\ LastVersion(d).changes_summary = RolledBack(1)
        /\ Stored(d) = <<post_versions[d][1].title, post_versions[d][1].content>>
        /\ post_versions[d][2].title # post_versions[d][1].title
        /\ post_versions[d][2].content # post_versions[d][1].content

RepoPatches == TitleBodyPatches \cup MetaPatches

\* the patch submits the stored title and the stored body
SameTitleAndBody(post_id, patch) ==
    /\ patch.title = Some(blog_posts[post_id].title)
    /\ patch.content = Some(blog_posts[post_id].content)

MetricsUnchanged(post_id) ==
    /\ blog_posts'[post_id].word_count = blog_posts[post_id].word_count
    /\ blog_posts'[post_id].reading_time = blog_posts[post_id].reading_time
    /\ blog_posts'[post_id].seo_score = blog_posts[post_id].seo_score

\* C7 as stated: an update that submits the stored title and body writes no
\* Version and leaves updated_at, word_count, reading_time and seo_score as
\* they were (checked under SpecRepo)
C7_NoOpUpdateLeavesTimestamp ==
    [][\A p \in Procs, d \in Posts, u \in Users, patch \in RepoPatches :
         (/\ update_blog_post(p, d, u, patch, None)
          /\ IsSet(get_blog_post(d, u))
          /\ SameTitleAndBody(d, patch))
         => /\ post_versions' = post_versions
            /\ pc' = pc
            /\ MetricsUnchanged(d)
            /\ blog_posts'[d].updated_at = blog_posts[d].updated_at]_vars

\* C7 as amended: such an update writes no Version and leaves word_count,
\* reading_time and seo_score as they were; it leaves updated_at as it was
\* when the patch changes no other field of the row (checked under SpecRepo)
C7_NoOpUpdateWritesNoVersion ==
    [][\A p \in Procs, d \in Posts, u \in Users, patch \in RepoPatches :
         (/\ update_blog_post(p, d, u, patch, None)
          /\ IsSet(get_blog_post(d, u))
          /\ SameTitleAndBody(d, patch))
         => /\ post_versions' = post_versions
            /\ pc' = pc
            /\ MetricsUnchanged(d)
            /\ (~IsSet(patch.meta_description)
                \/ patch.meta_description = blog_posts[d].meta_description)
               => /\ blog_posts'[d].updated_at = blog_posts[d].updated_at
                  /\ blog_posts' = blog_posts]_vars

\* C7 witness: some time after its creation the post has taken an update
\* (only an update sets meta_description) and still has its first Version
\* only, its first title and body, and nothing more under way
C7_Witness ==
    \E d \in DOMAIN blog_posts :
        /\ AllIdle
        /\ now > 0
        /\ IsSet(blog_posts[d].meta_description)
        /\ Len(post_versions[d]) = 1
        /\ LastVersion(d).changes_summary = InitialVersion
        /\ Stored(d) = <<LastVersion(d).title, LastVersion(d).content>>


\* what a caller who does not own the post is told, set against what the same
\* caller is told about an id that was never issued
AnswersAsForMissing(post_id, user_id) ==
    /\ get_blog_post(post_id, user_id) = get_blog_post(Missing, user_id)
    /\ get_post_versions(post_id, user_id) = get_post_versions(Missing, user_id)
    /\ delete_answer(post_id, user_id) = delete_answer(Missing, user_id)
    /\ \A patch \in RepoPatches :
          update_answer(post_id, user_id, patch) = update_answer(Missing, user_id, patch)
    /\ \A n \in 1..(MaxVersions + 1) :
          /\ get_post_version(post_id, n, user_id) = get_post_version(Missing, n, user_id)
          /\ rollback_answer(post_id, n, user_id) = rollback_answer(Missing, n, user_id)

NotOwnedAnswers ==
    \A d \in DOMAIN blog_posts, u \in Users :
        blog_posts[d].user_id # u => AnswersAsForMissing(d, u)

\* a step of an operation issued under the identity of Other, the autosave
\* attempts for Other's keys included
OtherStep ==
    \/ OtherUpdate
    \/ OtherDelete
    \/ OtherRollback
    \/ OtherSchedule
    \/ OtherForce
    \/ OtherResolve
    \/ \E task \in tasks : task.key[1] = Other /\ perform_autosave(task)

\* C8: for a post that the caller does not own, every read, update, delete,
\* version listing, rollback and autosave answers as it does for a post that
\* does not exist, and none of them changes the post, its versions or an
\* operation under way (checked under SpecTenant, where Owner owns every post)
C8_NoCrossTenantAccess ==
    [][/\ NotOwnedAnswers
       /\ NotOwnedAnswers'
       /\ OtherStep => UNCHANGED <<blog_posts, post_versions, pc>>]_vars

\* C8 witness: Other has buffered a draft against Owner's post, the attempt to
\* persist it has run, and the post still reads as Owner wrote it
C8_Witness ==
    \E d \in DOMAIN blog_posts :
        /\ blog_posts[d].user_id = Owner
        /\ Key(Other, d) \in DOMAIN autosave_cache
        /\ Key(Other, d) \in DOMAIN save_intervals
        /\ tasks = {}
        /\ Buffered(Key(Other, d)) # Stored(d)
        /\ Len(post_versions[d]) > 0
        /\ Stored(d) = <<LastVersion(d).title, LastVersion(d).content>>

\* C9: the persist attempt that resolve_conflict(.., "keep_local") starts for a
\* key in conflict commits the buffered title and body to the post
\* (checked under SpecAuto)
C9_KeepLocalCommitsBuffer ==
    [][\A task \in tasks :
         (/\ task.origin = "keep_local"
          /\ task.key \in DOMAIN autosave_cache
          /\ perform_autosave(task))
         => LET cache_data == autosave_cache[task.key] IN
            (IsSet(cache_data.conflict)
             /\ IsSet(get_blog_post(cache_data.post_id, cache_data.user_id)))
            => /\ blog_posts'[cache_data.post_id].title = cache_data.title
               /\ blog_posts'[cache_data.post_id].content = cache_data.content]_vars

\* C10: resolve_conflict(.., "merge", body) for a key in conflict puts the
\* merged body in the buffer, marks the key pending and starts a persist
\* attempt; with the post unchanged since the conflict was detected, that
\* attempt commits the merged body (checked under SpecAuto)
C10_MergeCommitsMergedBody ==
    [][/\ \A d \in DOMAIN blog_posts, c \in Bodies :
            (/\ Key(Owner, d) \in DOMAIN autosave_cache
             /\ resolve_conflict(d, Owner, "merge", Some(c)))
            => /\ autosave_cache'[Key(Owner, d)].content = c
               /\ autosave_cache'[Key(Owner, d)].save_pending
               /\ Task(Key(Owner, d), "merge") \in tasks'
       /\ \A task \in tasks :
            (/\ task.origin = "merge"
             /\ task.key \in DOMAIN autosave_cache
             /\ perform_autosave(task))
            => LET cache_data == autosave_cache[task.key]
                   found == get_blog_post(cache_data.post_id, cache_data.user_id)
               IN  (/\ IsSet(cache_data.conflict)
                    /\ IsSet(found)
                    /\ Val(found).updated_at <= Val(cache_data.conflict).detected_at
                    /\ Val(found).content = Val(cache_data.conflict).remote_content
                    /\ Val(found).title = Val(cache_data.conflict).remote_title)
                   => blog_posts'[cache_data.post_id].content = cache_data.content]_vars


\* C11: resolve_conflict(.., "keep_remote") for a key in conflict whose post
\* is stored leaves the buffered title and body equal to the stored ones and
\* the key saved, starts no attempt, and changes neither the post, nor its
\* versions, nor an operation under way (checked under SpecAuto)
C11_KeepRemoteReloadsBuffer ==
    [][\A d \in DOMAIN blog_posts, c \in {None, Some(B2)} :
         (/\ Key(Owner, d) \in DOMAIN autosave_cache
          /\ IsSet(autosave_cache[Key(Owner, d)].conflict)
          /\ resolve_conflict(d, Owner, "keep_remote", c))
         => /\ autosave_cache'[Key(Owner, d)].title = blog_posts[d].title
            /\ autosave_cache'[Key(Owner, d)].content = blog_posts[d].content
            /\ ~autosave_cache'[Key(Owner, d)].save_pending
            /\ autosave_status(d, Owner)'.status = "saved"
            /\ UNCHANGED <<blog_posts, post_versions, pc, tasks>>]_vars

\* C11 witness: a key with a conflict on record, saved, its buffer equal to
\* the post as the other writer left it and not to the local side of the
\* conflict, and no attempt queued
C11_Witness ==
    \E d \in DOMAIN blog_posts :
        /\ Key(Owner, d) \in DOMAIN autosave_cache
        /\ IsSet(autosave_cache[Key(Owner, d)].conflict)
        /\ ~autosave_cache[Key(Owner, d)].save_pending
        /\ Buffered(Key(Owner, d)) = Stored(d)
        /\ Val(autosave_cache[Key(Owner, d)].conflict).local_title # blog_posts[d].title
        /\ Stored(d) = <<Val(autosave_cache[Key(Owner, d)].conflict).remote_title,
                         Val(autosave_cache[Key(Owner, d)].conflict).remote_content>>
        /\ tasks = {}


\* every answer resolve_conflict gives to a resolution that is none of
\* keep_local, keep_remote and merge is an error: "Invalid resolution method"
\* for a key with an entry, "No conflict to resolve" for a key without
InvalidResolutionAnswers ==
    \A d \in Posts, c \in {None, Some(B2)} :
        LET answer == resolve_conflict_answer(d, Owner, "other", c) IN
        /\ answer.action = ""
        /\ answer.error = IF Key(Owner, d) \in DOMAIN autosave_cache
                          THEN "Invalid resolution method"
                          ELSE "No conflict to resolve"

\* C12: resolve_conflict with a resolution other than keep_local, keep_remote
\* and merge answers with the invalid-resolution error on the key's entry, and
\* changes neither the cache, nor the store, nor the queue of attempts
\* (checked under SpecAuto)
C12_InvalidResolutionRejected ==
    [][/\ InvalidResolutionAnswers'
       /\ \A d \in Posts, c \in {None, Some(B2)} :
            resolve_conflict(d, Owner, "other", c)
            => UNCHANGED <<autosave_cache, save_intervals, blog_posts, post_versions,
                           tasks, pc>>]_vars

\* C12 witness: a key in conflict, still pending, nothing queued, the server
\* free to take the call, which it answers with the invalid-resolution error
C12_Witness ==
    \E d \in DOMAIN blog_posts :
        /\ Key(Owner, d) \in DOMAIN autosave_cache
        /\ IsSet(autosave_cache[Key(Owner, d)].conflict)
        /\ autosave_cache[Key(Owner, d)].save_pending
        /\ tasks = {}
        /\ pc[Server].at = "idle"
        /\ resolve_conflict_answer(d, Owner, "other", Some(B2)).error
             = "Invalid resolution method"
        /\ ENABLED resolve_conflict(d, Owner, "other", Some(B2))


\* an attempt for cache_key that fails: the store raises before the commit, or
\* the post cannot be loaded for the entry's user, or the store raises while
\* the attempt writes the Version of what it committed
FailedAttempt(cache_key) ==
    \/ \E task \in tasks : task.key = cache_key /\ autosave_store_error(task)
    \/ \E task \in tasks :
          /\ task.key = cache_key
          /\ cache_key \in DOMAIN autosave_cache
          /\ ~IsSet(get_blog_post(autosave_cache[cache_key].post_id,
                                  autosave_cache[cache_key].user_id))
          /\ perform_autosave(task)
    \/ /\ pc[Server].key = Some(cache_key)
       /\ create_version_error(Server)

\* C13: a persist attempt that fails leaves the key's entry as it was: a key
\* that was pending answers "pending" to the status query, not "saved", and
\* its buffered title and body are the same, for a later attempt to persist
\* (checked under SpecFail)
C13_FailedAttemptStaysPending ==
    [][\A cache_key \in Keys :
         (cache_key \in DOMAIN autosave_cache /\ FailedAttempt(cache_key))
         => /\ cache_key \in DOMAIN autosave_cache'
            /\ autosave_cache'[cache_key] = autosave_cache[cache_key]
            /\ autosave_cache[cache_key].save_pending
               => autosave_status(cache_key[2], cache_key[1])'.status = "pending"]_vars

\* C13 witness: the attempt committed the draft to the post and failed before
\* its Version was written: the post reads as the draft, holds its first
\* Version only, and the key is still pending with the same draft
C13_Witness ==
    \E d \in DOMAIN blog_posts :
        /\ AllIdle
        /\ tasks = {}
        /\ Key(Owner, d) \in DOMAIN autosave_cache
        /\ autosave_status(d, Owner).status = "pending"
        /\ Buffered(Key(Owner, d)) = Stored(d)
        /\ Len(post_versions[d]) = 1
        /\ LastVersion(d).changes_summary = InitialVersion
        /\ LastVersion(d).content # blog_posts[d].content


\* C14: in every committed state of a post, word_count is the number of
\* whitespace-delimited tokens of its body, reading_time is
\* max(1, round(word_count / 200)), and seo_score is the score computed from
\* its title, meta description, word_count, keywords and slug
\* (checked under SpecRepo)
C14_MetricsConsistent ==
    \A d \in DOMAIN blog_posts :
        /\ blog_posts[d].word_count = WordCountOf(blog_posts[d].content)
        /\ blog_posts[d].reading_time
             = Max(1, PyRound(blog_posts[d].word_count, WordsPerMinute))
        /\ blog_posts[d].seo_score = calculate_seo_score(blog_posts[d])


\* C15: a created post is never to be seen without its Version 1: whenever the
\* post is stored it has a Version numbered 1 with summary "Initial version"
\* (checked under SpecRepo)
C15_CreateWritesVersionOne ==
    \A d \in DOMAIN blog_posts :
        /\ Len(post_versions[d]) >= 1
        /\ \E i \in 1..Len(post_versions[d]) :
              /\ post_versions[d][i].version_number = 1
              /\ post_versions[d][i].changes_summary = InitialVersion


\* the summary an update's Version is to carry: the caller's, or "Content
\* updated" when the caller gave none (or an empty one)
SummaryFor(summary) ==
    IF summary \in {None, Some(<< >>)} THEN ContentUpdated ELSE Val(summary)

\* C16: an update that changes the stored title or the stored body goes on to
\* write a Version of the updated title and body under the caller's summary,
\* or "Content updated" when none is given, and that write appends exactly one
\* row, with that snapshot and summary, to the rows that were there
\* (checked under SpecSummary)
C16_UpdateAppendsVersion ==
    [][/\ \A p \in Procs, d \in Posts, patch \in TitleBodyPatches, summary \in Summaries :
            (/\ update_blog_post(p, d, Owner, patch, summary)
             /\ IsSet(get_blog_post(d, Owner))
             /\ \/ blog_posts'[d].title # blog_posts[d].title
                \/ blog_posts'[d].content # blog_posts[d].content)
            => /\ pc'[p].at = "create_version"
               /\ pc'[p].post_id = d
               /\ pc'[p].title = blog_posts'[d].title
               /\ pc'[p].content = blog_posts'[d].content
               /\ pc'[p].summary = SummaryFor(summary)
               /\ post_versions' = post_versions
       /\ \A p \in Procs, d \in Posts :
            (/\ InsertVersion(p)
             /\ pc[p].post_id = d
             /\ pc[p].summary \in {ContentUpdated, Edited})
            => /\ Len(post_versions'[d]) = Len(post_versions[d]) + 1
               /\ SubSeq(post_versions'[d], 1, Len(post_versions[d])) = post_versions[d]
               /\ post_versions'[d][Len(post_versions[d]) + 1].title = pc[p].title
               /\ post_versions'[d][Len(post_versions[d]) + 1].content = pc[p].content
               /\ post_versions'[d][Len(post_versions[d]) + 1].changes_summary
                    = pc[p].summary
               /\ pc'[p].at = "idle"]_vars

\* C16 witness: a post updated twice, once without a summary and once with
\* one: three Versions, the last under the caller's summary and equal to the
\* post, the one before under "Content updated"
C16_Witness ==
    \E d \in DOMAIN blog_posts :
        /\ AllIdle
        /\ Len(post_versions[d]) = 3
        /\ post_versions[d][2].changes_summary = ContentUpdated
        /\ post_versions[d][3].changes_summary = Edited
        /\ Stored(d) = <<post_versions[d][3].title, post_versions[d][3].content>>
        /\ post_versions[d][3].title # post_versions[d][2].title
        /\ post_versions[d][2].content # post_versions[d][1].content


\* new is old with some rows taken out: the rows left are rows of old, each
\* with its number and contents, in the order they had
RECURSIVE IsSubSeq(_, _)
IsSubSeq(new, old) ==
    IF new = << >> THEN TRUE
    ELSE IF old = << >> THEN FALSE
    ELSE IF Head(new) = Head(old) THEN IsSubSeq(Tail(new), Tail(old))
    ELSE IsSubSeq(new, Tail(old))

NumbersDesc(rows) ==
    LET sorted == SortDesc(rows) IN [i \in 1..Len(rows) |-> sorted[i].version_number]

\* C17: pruning a post that holds more Versions than the cap leaves exactly
\* cap rows, all of them rows the post held, unaltered, and their numbers are
\* the cap highest of the numbers it held; a post at or below the cap keeps
\* its rows as they are (checked under SpecPrune)
C17_PruneKeepsHighest ==
    [][\A p \in Procs, d \in Posts :
         (cleanup_old_versions(p) /\ pc[p].post_id = d)
         => IF Len(post_versions[d]) <= MaxVersionsPerPost
            THEN post_versions'[d] = post_versions[d]
            ELSE /\ Len(post_versions'[d]) = MaxVersionsPerPost
                 /\ IsSubSeq(post_versions'[d], post_versions[d])
                 /\ NumbersDesc(post_versions'[d])
                      = SubSeq(NumbersDesc(post_versions[d]), 1, MaxVersionsPerPost)]_vars

\* C17 witness: a pruned post: cap rows, the first Version gone, the last
\* Version, the autosave's, still there, and nothing more under way
C17_Witness ==
    \E d \in DOMAIN blog_posts :
        /\ AllIdle
        /\ Len(post_versions[d]) = MaxVersionsPerPost
        /\ post_versions[d][1].version_number > 1
        /\ post_versions[d][1].changes_summary # InitialVersion
        /\ LastVersion(d).changes_summary = AutoSaved


\* C18: an attempt that finds the buffered title and body equal to the stored
\* ones marks the key saved and does nothing else: no Version, no change to
\* the post, no call into the store under way, the rest of the entry as it was
\* (checked under SpecAuto)
C18_NoOpAutosaveMarksSaved ==
    [][\A task \in tasks :
         (/\ task.key \in DOMAIN autosave_cache
          /\ IsSet(get_blog_post(autosave_cache[task.key].post_id,
                                 autosave_cache[task.key].user_id))
          /\ Buffered(task.key) = Stored(autosave_cache[task.key].post_id)
          /\ perform_autosave(task))
         => /\ autosave_cache' = [autosave_cache EXCEPT ![task.key].save_pending = FALSE]
            /\ autosave_status(task.key[2], task.key[1])'.status = "saved"
            /\ UNCHANGED <<blog_posts, post_versions, pc, save_intervals>>]_vars

\* C18 witness: a key marked saved with no save on record and no conflict,
\* its buffer equal to the post, which holds its first Version only
C18_Witness ==
    \E d \in DOMAIN blog_posts :
        /\ AllIdle
        /\ tasks = {}
        /\ Key(Owner, d) \in DOMAIN autosave_cache
        /\ ~autosave_cache[Key(Owner, d)].save_pending
        /\ autosave_cache[Key(Owner, d)].last_saved = None
        /\ autosave_cache[Key(Owner, d)].conflict = None
        /\ Buffered(Key(Owner, d)) = Stored(d)
        /\ Len(post_versions[d]) = 1


\* force_save answers "no_content" exactly for the keys without an entry
ForceSaveAnswers ==
    \A d \in Posts \cup {Missing}, u \in Users :
        force_save_answer(d, u).status
          = IF Key(u, d) \in DOMAIN autosave_cache THEN "saving" ELSE "no_content"

\* the call force_save(post_id, user_id) hands an attempt to the event loop
StartsAttempt(post_id, user_id) ==
    /\ force_save(post_id, user_id)
    /\ Task(Key(user_id, post_id), "force") \in tasks'

\* whenever the server can take the call for a key with an entry (and the
\* queue of the model has room), the call starts an attempt, whatever the
\* time since the last one was triggered
ForceSaveIgnoresThrottle ==
    \A d \in Posts, u \in Users :
        (/\ Key(u, d) \in DOMAIN autosave_cache
         /\ pc[Server].at = "idle"
         /\ RoomForTask(Task(Key(u, d), "force")))
        => ENABLED StartsAttempt(d, u)

\* C19: force_save for a key without an entry answers that there is nothing to
\* save and changes nothing; for a key with an entry it starts a persist
\* attempt at once, however recently the last one was triggered, and changes
\* nothing else (checked under SpecAuto)
C19_ForceSaveStartsAttempt ==
    [][/\ ForceSaveAnswers
       /\ ForceSaveAnswers'
       /\ ForceSaveIgnoresThrottle
       /\ \A d \in Posts, u \in Users :
            force_save(d, u)
            => /\ UNCHANGED <<autosave_cache, save_intervals, blog_posts, post_versions, pc>>
               /\ tasks' = IF Key(u, d) \in DOMAIN autosave_cache
                           THEN tasks \cup {Task(Key(u, d), "force")}
                           ELSE tasks]_vars

\* C19 witness: a forced attempt is queued for a key whose last attempt was
\* triggered less than a save interval ago
C19_Witness ==
    \E d \in DOMAIN blog_posts :
        /\ Task(Key(Owner, d), "force") \in tasks
        /\ Key(Owner, d) \in DOMAIN save_intervals
        /\ ~SaveDue(Key(Owner, d), now)
        /\ force_save_answer(d, Owner).status = "saving"


\* the status query answers "no_autosave" exactly for the keys without an
\* entry, and otherwise what the entry says
StatusAnswers ==
    \A d \in Posts \cup {Missing}, u \in Users :
        LET answer == autosave_status(d, u) IN
        IF Key(u, d) \notin DOMAIN autosave_cache
        THEN answer.status = "no_autosave" /\ answer.last_saved = None
        ELSE /\ answer.status = IF autosave_cache[Key(u, d)].save_pending
                                THEN "pending" ELSE "saved"
             /\ answer.last_modified = Some(autosave_cache[Key(u, d)].last_modified)
             /\ answer.last_saved = autosave_cache[Key(u, d)].last_saved

\* C20: get_autosave_status changes no state: for a key with or without an
\* entry, the cache entries, the throttle times, the posts and the versions
\* are the same after the call as before (checked under SpecFail)
C20_StatusIsPureRead ==
    [][/\ StatusAnswers
       /\ StatusAnswers'
       /\ \A d \in Posts \cup {Missing}, u \in Users :
            get_autosave_status(d, u)
            => UNCHANGED <<autosave_cache, save_intervals, blog_posts, post_versions,
                           tasks, pc>>]_vars

\* C20 witness: the call can be made for a key with an entry, pending and due,
\* and for a key without one, and the two get their different answers
C20_Witness ==
    \E d \in DOMAIN blog_posts :
        /\ Key(Owner, d) \in DOMAIN autosave_cache
        /\ Key(Other, d) \notin DOMAIN autosave_cache
        /\ autosave_status(d, Owner).status = "pending"
        /\ autosave_status(d, Owner).next_save_in = Some(0)
        /\ autosave_status(d, Other).status = "no_autosave"
        /\ ENABLED get_autosave_status(d, Owner)
        /\ ENABLED get_autosave_status(d, Other)


\* delete_blog_post answers true exactly for a stored post asked for by its
\* owner
DeleteAnswers ==
    \A d \in Posts \cup {Missing}, u \in Users :
        delete_answer(d, u) = (d \in DOMAIN blog_posts /\ blog_posts[d].user_id = u)

\* C21: delete of a stored post by its owner answers true and removes the post
\* and all of its Versions; delete of a post that is absent, deleted already or
\* owned by someone else answers false and changes nothing; after a delete the
\* same delete answers false (checked under SpecDelete)
C21_DeleteCascades ==
    [][/\ DeleteAnswers
       /\ DeleteAnswers'
       /\ \A p \in Procs, d \in Posts \cup {Missing}, u \in Users :
            delete_blog_post(p, d, u)
            => IF delete_answer(d, u)
               THEN /\ d \notin DOMAIN blog_posts'
                    /\ post_versions'[d] = << >>
                    /\ ~delete_answer(d, u)'
                    /\ \A e \in DOMAIN blog_posts \ {d} :
                          /\ e \in DOMAIN blog_posts'
                          /\ blog_posts'[e] = blog_posts[e]
                          /\ post_versions'[e] = post_versions[e]
                    /\ UNCHANGED <<pc, autosave_cache, save_intervals, tasks>>
               ELSE UNCHANGED <<blog_posts, post_versions, pc, autosave_cache,
                                save_intervals, tasks>>]_vars

\* C21 witness: a post that had its first Version was deleted while an update
\* was writing the second: the post and its Versions are gone, and a delete
\* now answers false, to the owner as to anyone
C21_Witness ==
    \E d \in Posts, p \in Procs :
        /\ d \notin DOMAIN blog_posts
        /\ post_versions[d] = << >>
        /\ pc[p].at = "insert_version"
        /\ pc[p].post_id = d
        /\ pc[p].version_number = 2
        /\ ~delete_answer(d, Owner)
        /\ ~delete_answer(d, Other)


\* the posts of the user stored under the title, in the order of their
\* creation (no step of SpecSlug changes a title)
SameTitle(user_id, title) ==
    SelectSeq(PostIds, LAMBDA d : /\ d \in DOMAIN blog_posts
                                  /\ blog_posts[d].user_id = user_id
                                  /\ blog_posts[d].title = title)

\* C22: of the posts a user created under one title, the first carries the
\* slug of the title, the second that slug suffixed "-2", the third "-3", and
\* no two of them carry the same slug (checked under SpecSlug)
C22_SecondSlugSuffixedTwo ==
    \A u \in Users, t \in Titles :
        LET same == SameTitle(u, t) IN
        \A i \in 1..Len(same) :
            /\ blog_posts[same[i]].slug
                 = Some(IF i = 1 THEN generate_slug(t)
                        ELSE generate_slug(t) \o <<"-", DigitStr[i]>>)
            /\ \A j \in 1..Len(same) : i # j => blog_posts[same[i]].slug # blog_posts[same[j]].slug


\* the parts of the score as the claim words them; meta_len is the length of
\* the meta description
ClaimedTitlePoints(title_len) ==
    IF 5 <= title_len /\ title_len <= 60 THEN 20 ELSE IF title_len <= 70 THEN 15 ELSE 0

ClaimedMetaPoints(meta_len) ==
    IF 120 <= meta_len /\ meta_len <= 160 THEN 20 ELSE IF meta_len <= 180 THEN 15 ELSE 0

ClaimedWordPoints(word_count) ==
    IF word_count >= 300 THEN 20 ELSE IF word_count >= 200 THEN 15 ELSE 0

ClaimedOtherPoints(row) ==
    (IF IsSet(row.keywords) /\ Len(Val(row.keywords)) >= 1 THEN 20 ELSE 0)
    + (IF IsSet(row.slug) /\ Val(row.slug) # << >> THEN 20 ELSE 0)

\* the score of a row whose meta description counts for meta_points
ClaimedScore(row, meta_points) ==
    Min(100, ClaimedTitlePoints(Len(row.title)) + meta_points
             + ClaimedWordPoints(row.word_count) + ClaimedOtherPoints(row))

\* the two cases the claim draws: the full score, and the title one to ten
\* characters over
BoundaryScores ==
    \A d \in DOMAIN blog_posts :
        LET row == blog_posts[d] IN
        (/\ row.meta_description = Some(Rep("m", 160))
         /\ row.word_count = 300
         /\ row.keywords = Some(<<"k">>)
         /\ IsSet(row.slug) /\ Val(row.slug) # << >>)
        => /\ Len(row.title) = 60 => row.seo_score = 100
           /\ Len(row.title) \in 61..70 => row.seo_score = 95

\* C23 as stated: the score of a created post is the capped sum of the five
\* parts, the part of the meta description being decided by its length alone,
\* that of an empty one included (checked under SpecSeo)
C23_SeoScoreByLengths ==
    /\ BoundaryScores
    /\ \A d \in DOMAIN blog_posts :
          LET row == blog_posts[d] IN
          row.seo_score
            = ClaimedScore(row, IF IsSet(row.meta_description)
                                THEN ClaimedMetaPoints(Len(Val(row.meta_description)))
                                ELSE 0)

\* C23 as amended: the same sum, the meta description counting only when the
\* post has one that is not empty (checked under SpecSeo)
C23_SeoScoreOfPresentMeta ==
    /\ BoundaryScores
    /\ \A d \in DOMAIN blog_posts :
          LET row == blog_posts[d] IN
          row.seo_score
            = ClaimedScore(row, IF IsSet(row.meta_description)
                                   /\ Val(row.meta_description) # << >>
                                THEN ClaimedMetaPoints(Len(Val(row.meta_description)))
                                ELSE 0)

\* C23 witness: a post of title length 60, meta description length 160, 300
\* words, one keyword and a slug, stored with the score 100
C23_Witness ==
    \E d \in DOMAIN blog_posts :
        /\ Len(blog_posts[d].title) = 60
        /\ blog_posts[d].meta_description = Some(Rep("m", 160))
        /\ blog_posts[d].word_count = 300
        /\ blog_posts[d].keywords = Some(<<"k">>)
        /\ Len(Val(blog_posts[d].slug)) = 60
        /\ blog_posts[d].seo_score = 100


\* the processes in which an attempt for the key has loaded the post and not
\* yet returned
AttemptsUnderWay(cache_key) ==
    {p \in Procs : pc[p].at # "idle" /\ pc[p].key = Some(cache_key)}

\* C24: at most one attempt per key is under way at any time: an attempt
\* loads the post, passes the conflict check and commits only when no attempt
\* of its key is under way, and what it commits is a buffer that differs from
\* the post it loaded (checked under SpecTwin)
C24_OneAttemptPerKey ==
    [][/\ \A k \in Keys : Cardinality(AttemptsUnderWay(k)) <= 1
       /\ \A k \in Keys : Cardinality(AttemptsUnderWay(k)') <= 1
       /\ \A task \in tasks :
            perform_autosave(task)
            => /\ AttemptsUnderWay(task.key) = {}
               /\ blog_posts' # blog_posts
                  => /\ Buffered(task.key) # Stored(task.key[2])
                     /\ AttemptsUnderWay(task.key)' = {Server}]_vars

\* C24 witness: an attempt has committed the draft and is writing its Version
\* while a second attempt of the same key waits for the event loop
C24_Witness ==
    \E k \in Keys, task \in tasks :
        /\ task.key = k
        /\ AttemptsUnderWay(k) = {Server}
        /\ pc[Server].at = "insert_version"
        /\ Stored(k[2]) = Buffered(k)
        /\ autosave_cache[k].save_pending


\* the call schedule_autosave for cache_key, made in this step, triggered a
\* persist: it handed an attempt to the event loop and noted the time
TriggersPersist(cache_key) ==
    /\ Task(cache_key, "schedule") \in tasks' \ tasks
    /\ cache_key \in DOMAIN save_intervals'
    /\ save_intervals'[cache_key] = now

\* C25: a call of schedule_autosave triggers a persist when none was ever
\* triggered for the key or at least save_interval seconds have passed since
\* the last one was, however long ago that is, and triggers none when less
\* than save_interval has passed (checked under SpecDay)
C25_TriggerAfterInterval ==
    [][\A d \in Posts, c \in Bodies :
         schedule_autosave(d, Owner, c, T1)
         => LET k == Key(Owner, d) IN
            IF k \notin DOMAIN save_intervals \/ now - save_intervals[k] >= SaveInterval
            THEN TriggersPersist(k)
            ELSE UNCHANGED <<tasks, save_intervals>>]_vars


\* C26: with the persists of the key as the only writers of the post after
\* its creation, no key holds a conflict record, and a buffer that differs
\* from the post is never older than the post, so that no attempt can find a
\* conflict (checked under SpecOwn)
C26_NoConflictWithOwnPersist ==
    \A k \in DOMAIN autosave_cache :
        /\ ~IsSet(autosave_cache[k].conflict)
        /\ (k[2] \in DOMAIN blog_posts /\ Stored(k[2]) # Buffered(k))
           => ~has_conflict(blog_posts[k[2]], autosave_cache[k])

\* C26 witness: two persists of the key have written their Versions, the
\* second with a later edit than the first, and the key is saved without a
\* conflict on record
C26_Witness ==
    \E d \in DOMAIN blog_posts :
        /\ AllIdle
        /\ tasks = {}
        /\ Len(post_versions[d]) = 3
        /\ post_versions[d][2].changes_summary = AutoSaved
        /\ post_versions[d][3].changes_summary = AutoSaved
        /\ post_versions[d][3].content # post_versions[d][2].content
        /\ Key(Owner, d) \in DOMAIN autosave_cache
        /\ ~autosave_cache[Key(Owner, d)].save_pending
        /\ ~IsSet(autosave_cache[Key(Owner, d)].conflict)
        /\ Buffered(Key(Owner, d)) = Stored(d)


\* in this step the entry of cache_key comes to be reported as saved, or,
\* reported as saved before and after, has its buffer or its time of saving
\* changed
MarkedSaved(cache_key) ==
    /\ cache_key \in DOMAIN autosave_cache'
    /\ autosave_status(cache_key[2], cache_key[1])'.status = "saved"
    /\ \/ cache_key \notin DOMAIN autosave_cache
       \/ autosave_cache[cache_key].save_pending
       \/ autosave_cache'[cache_key].last_saved # autosave_cache[cache_key].last_saved
       \/ Buffered(cache_key)' # Buffered(cache_key)

\* the step ends the attempt of cache_key that committed the buffer to the
\* post: its Version is written and the entry marked
AttemptMarksSaved(cache_key) ==
    /\ InsertVersion(Server)
    /\ pc[Server].key = Some(cache_key)
    /\ Buffered(cache_key)' = <<pc[Server].title, pc[Server].content>>
    /\ Buffered(cache_key)' = Buffered(cache_key)

\* C27 as stated: the buffer of an entry reported as saved holds the title and
\* body the store holds at the moment the entry is marked saved, and changes
\* only by being marked again (checked under SpecAuto)
C27_SavedBufferMatchesStore ==
    [][\A k \in Keys :
         MarkedSaved(k) => /\ k[2] \in DOMAIN blog_posts'
                           /\ Buffered(k)' = Stored(k[2])']_vars

\* C27 as amended: the buffer of an entry reported as saved holds the title
\* and body the store holds at the moment the entry is marked, or, when it is
\* marked by the attempt that committed it, the title and body that attempt
\* committed; an entry whose buffer is changed in any other way, as by
\* schedule_autosave, is reported as pending (checked under SpecAuto)
C27_SavedBufferWasPersisted ==
    [][\A k \in Keys :
         MarkedSaved(k) => /\ k[2] \in DOMAIN blog_posts'
                           /\ Buffered(k)' = Stored(k[2])' \/ AttemptMarksSaved(k)]_vars

\* C27 witness: the entry was marked saved by its attempt after a second
\* writer had changed the post: it is saved later than the post was last
\* written, with a buffer that one of the Versions holds and the post does not
C27_Witness ==
    \E d \in DOMAIN blog_posts :
        /\ AllIdle
        /\ Key(Owner, d) \in DOMAIN autosave_cache
        /\ autosave_status(d, Owner).status = "saved"
        /\ IsSet(autosave_cache[Key(Owner, d)].last_saved)
        /\ Val(autosave_cache[Key(Owner, d)].last_saved) > blog_posts[d].updated_at
        /\ Buffered(Key(Owner, d)) # Stored(d)
        /\ \E i \in 1..Len(post_versions[d]) :
              /\ post_versions[d][i].changes_summary = AutoSaved
              /\ Buffered(Key(Owner, d)) = <<post_versions[d][i].title, post_versions[d][i].content>>


SetMin(S) == CHOOSE m \in S : \A x \in S : m <= x

\* the numbers of S are all the numbers from its lowest to its highest
Contiguous(S) == S = {} \/ S = SetMin(S)..SetMax(S)

\* the step prunes the Versions of the post, which hold more than the cap
PrunesPost(post_id) ==
    /\ Len(post_versions[post_id]) > MaxVersionsPerPost
    /\ \E p \in Procs : pc[p].post_id = post_id /\ cleanup_old_versions(p)

HighestVersions(post_id) ==
    {VersionsOf(post_id)[i] : i \in {j \in 1..Len(VersionsOf(post_id)) :
        VersionsOf(post_id)[j].version_number = SetMax(VersionNumbers(post_id))}}

\* C29: in every committed state the highest-numbered Version of a stored
\* post that has Versions carries the title and the body of the post's row
\* (checked under SpecRepo; update_blog_post and rollback_to_version commit the
\* row before _create_version commits the Version)
C29_HighestVersionMatchesPost ==
    \A d \in DOMAIN blog_posts :
        VersionsOf(d) # << >> =>
            \A v \in HighestVersions(d) :
                v.title = blog_posts[d].title /\ v.content = blog_posts[d].content


====
